---- MODULE Spec2Model ----
(***************************************************************************)
(* Oxedium AMM adapter for the Jupiter router: the fixed-point swap math   *)
(* (raw_amount_out, compute_swap_math) and the adapter's account snapshot  *)
(* (OxediumAmm::update / quote).                                           *)
(*                                                                         *)
(* The program computes in u64 and u128.  TLC's integers are 32 bits wide, *)
(* so every program integer is held as a little-endian sequence of limbs   *)
(* (base 2^15, no leading zero limb, zero = <<>>) and the arithmetic of    *)
(* the program is carried out exactly on those sequences; the widths 64    *)
(* and 128 are the program's own.                                          *)
(***************************************************************************)
EXTENDS Integers, Sequences, FiniteSets, TLC

----------------------------------------------------------------------------
(* Wide unsigned integers.                                                 *)

BASE == 2 ^ 15

Limb(a, i) == IF i <= Len(a) THEN a[i] ELSE 0

RECURSIVE Norm(_)
Norm(a) == IF a = <<>> THEN a
           ELSE IF a[Len(a)] = 0 THEN Norm(SubSeq(a, 1, Len(a) - 1)) ELSE a

\* The wide integer of a natural number that TLC can hold.
RECURSIVE Big(_)
Big(n) == IF n = 0 THEN <<>> ELSE <<n % BASE>> \o Big(n \div BASE)

Zero == <<>>

RECURSIVE AddFrom(_, _, _, _)
AddFrom(a, b, i, c) ==
    IF i > Len(a) /\ i > Len(b) THEN (IF c = 0 THEN <<>> ELSE <<c>>)
    ELSE LET s == Limb(a, i) + Limb(b, i) + c
         IN  <<s % BASE>> \o AddFrom(a, b, i + 1, s \div BASE)

BigAdd(a, b) == AddFrom(a, b, 1, 0)

RECURSIVE SubFrom(_, _, _, _)
SubFrom(a, b, i, c) ==
    IF i > Len(a) THEN <<>>
    ELSE LET s == Limb(a, i) - Limb(b, i) - c
         IN  IF s < 0 THEN <<s + BASE>> \o SubFrom(a, b, i + 1, 1)
                      ELSE <<s>> \o SubFrom(a, b, i + 1, 0)

\* a - b, for b <= a.
BigSub(a, b) == Norm(SubFrom(a, b, 1, 0))

RECURSIVE LeFrom(_, _, _)
LeFrom(a, b, i) == IF i = 0 THEN TRUE
                   ELSE IF a[i] # b[i] THEN a[i] < b[i]
                   ELSE LeFrom(a, b, i - 1)

BigLe(a, b) == IF Len(a) # Len(b) THEN Len(a) < Len(b) ELSE LeFrom(a, b, Len(a))
BigLt(a, b) == ~BigLe(b, a)

RECURSIVE MulLimbFrom(_, _, _, _)
MulLimbFrom(a, m, i, c) ==
    IF i > Len(a) THEN (IF c = 0 THEN <<>> ELSE <<c>>)
    ELSE LET s == a[i] * m + c
         IN  <<s % BASE>> \o MulLimbFrom(a, m, i + 1, s \div BASE)

\* a * (the limbs of b from j up) given acc = a * (the limbs of b above j),
\* one limb of b at a time from the top.
RECURSIVE MulFrom(_, _, _, _)
MulFrom(a, b, j, acc) ==
    IF j = 0 THEN acc
    ELSE LET next == BigAdd(MulLimbFrom(a, b[j], 1, 0),
                            IF acc = <<>> THEN <<>> ELSE <<0>> \o acc)
         IN  IF next = <<>> THEN MulFrom(a, b, j - 1, <<>>)
             ELSE MulFrom(a, b, j - 1, next)

BigMul(a, b) == IF a = <<>> \/ b = <<>> THEN <<>> ELSE Norm(MulFrom(a, b, Len(b), <<>>))

\* <<b, 2b, 4b, ...>>: the n shifts of the divisor one limb of quotient needs.
RECURSIVE Shifts(_, _)
Shifts(b, n) == IF n = 0 THEN <<>> ELSE <<b>> \o Shifts(BigAdd(b, b), n - 1)

\* One limb of long division: <<d, cur - d * b>> for the largest d with d * b <= cur.
RECURSIVE Reduce(_, _, _, _)
Reduce(cur, t, k, d) ==
    IF k = 0 THEN <<d, cur>>
    ELSE IF BigLe(t[k], cur) THEN Reduce(BigSub(cur, t[k]), t, k - 1, d + 2 ^ (k - 1))
    ELSE Reduce(cur, t, k - 1, d)

\* Long division from the top limb i down, with the quotient q and the
\* remainder r of the limbs above i; each limb is reduced before the next.
RECURSIVE DivFrom(_, _, _, _, _)
DivFrom(a, t, i, q, r) ==
    IF i = 0 THEN <<Norm(q), r>>
    ELSE LET dr == Reduce(Norm(<<a[i]>> \o r), t, 15, 0)
         IN  IF dr[2] = <<>> THEN DivFrom(a, t, i - 1, <<dr[1]>> \o q, <<>>)
             ELSE DivFrom(a, t, i - 1, <<dr[1]>> \o q, dr[2])

\* <<floor(a / b), a mod b>>, for b > 0.
BigDivMod(a, b) == DivFrom(a, Shifts(b, 15), Len(a), <<>>, <<>>)
BigDiv(a, b) == BigDivMod(a, b)[1]
BigMod(a, b) == BigDivMod(a, b)[2]

\* x^e by repeated squaring, exact.
RECURSIVE BigPow(_, _)
BigPow(x, e) == IF e = 0 THEN Big(1)
                ELSE LET h == BigPow(x, e \div 2)
                     IN  IF e % 2 = 0 THEN BigMul(h, h) ELSE BigMul(BigMul(h, h), x)

Pow10(e) == BigPow(Big(10), e)

TwoPow64  == BigPow(Big(2), 64)
TwoPow128 == BigPow(Big(2), 128)
U64_MAX   == BigSub(TwoPow64, Big(1))

\* x mod 2^bits: the limbs below bit `bits`.
LowBits(x, bits) ==
    LET full == bits \div 15
        n    == IF Len(x) <= full THEN Len(x) ELSE full + 1
    IN  Norm([i \in 1..n |-> IF i <= full THEN x[i] ELSE x[i] % (2 ^ (bits % 15))])

FitsU64(x)  == BigLt(x, TwoPow64)
FitsU128(x) == BigLt(x, TwoPow128)

----------------------------------------------------------------------------
(* Rust's integer operators.  An Option is <<>> (None) or <<v>> (Some(v)). *)

None == <<>>
Some(v) == <<v>>

\* Some(x) when x is below the limit of the type, else None.
checked(x, limit) == IF BigLt(x, limit) THEN Some(x) ELSE None

\* u128::wrapping_mul, where checked_mul is meant
wrapping_mul(a, b) == Some(LowBits(BigMul(a, b), 128))

\* u128::checked_mul
checked_mul(a, b) == checked(BigMul(a, b), TwoPow128)

\* u128::checked_div: None exactly when the divisor is zero.
checked_div(a, b) == IF b = Zero THEN None ELSE Some(BigDiv(a, b))

\* u64::checked_add
checked_add(a, b) == checked(BigAdd(a, b), TwoPow64)

\* The operators * and + are unchecked: with overflow checks on (a debug
\* build) an overflow panics, without them the result wraps modulo 2^bits.
unchecked(checks, x, limit, bits) ==
    IF BigLt(x, limit) THEN [panic |-> FALSE, v |-> x]
    ELSE IF checks THEN [panic |-> TRUE, v |-> Zero]
    ELSE [panic |-> FALSE, v |-> LowBits(x, bits)]

mul_u128(checks, a, b) == unchecked(checks, BigMul(a, b), TwoPow128, 128)
add_u64(checks, a, b)  == unchecked(checks, BigAdd(a, b), TwoPow64, 64)

\* u128::pow: square and multiply, with the operator * above.
RECURSIVE pow_loop(_, _, _, _)
pow_step(checks, base2, exp, acc2) ==
    IF acc2.panic \/ base2.panic THEN [panic |-> TRUE, v |-> Zero]
    ELSE pow_loop(checks, base2.v, exp \div 2, acc2.v)
pow_loop(checks, base, exp, acc) ==
    IF exp <= 1 THEN mul_u128(checks, acc, base)
    ELSE pow_step(checks, mul_u128(checks, base, base), exp,
                  IF exp % 2 = 1 THEN mul_u128(checks, acc, base)
                  ELSE [panic |-> FALSE, v |-> acc])

\* 10u128.pow(e)
pow10_u128(checks, e) ==
    IF e = 0 THEN [panic |-> FALSE, v |-> Big(1)] ELSE pow_loop(checks, Big(10), e, Big(1))

----------------------------------------------------------------------------
(* Results: Ok(val), Err(err) or a panic, which unwinds out of the call.   *)

Ok(v)    == [tag |-> "Ok",    val |-> v,      err |-> ""]
Err(msg) == [tag |-> "Err",   val |-> <<>>,   err |-> msg]
Panic    == [tag |-> "Panic", val |-> <<>>,   err |-> ""]

\* opt.ok_or_else(|| anyhow!(msg))? and then the rest of the function
OkOrElse(opt, msg, Rest(_)) == IF opt = None THEN Err(msg) ELSE Rest(opt[1])

\* the value of an unchecked operation and then the rest, unless it panicked
Unless(r, Rest(_)) == IF r.panic THEN Panic ELSE Rest(r.v)

\* result.map_err(|e| anyhow!("<prefix>{:?}", e))? and then the rest; a panic
\* unwinds
MapErr(result, prefix, Rest(_)) ==
    IF result.tag = "Ok" THEN Rest(result.val)
    ELSE IF result.tag = "Err" THEN Err(prefix \o result.err) ELSE Panic

\* result? and then the rest
Question(result, Rest(_)) == IF result.tag = "Ok" THEN Rest(result.val) ELSE result

----------------------------------------------------------------------------
(* components/raw_amount_out.rs                                            *)

\* crate::utils::SCALE, the u128 fixed-point scale of the converter.
SCALE == Pow10(12)

\* The literal 1_000_000_00 of steps 2 and 3: the oracle's price exponent.
PRICE_SCALE == Big(100000000)

raw_amount_out(checks, amount_in, decimals_in, decimals_out, price_in, price_out) ==
    \* 1. amount_fp = amount_in * SCALE / 10^decimals_in
    OkOrElse(checked_mul(amount_in, SCALE),
             "Overflow in mul during amount_fp calculation", LAMBDA m1 :
    Unless(pow10_u128(checks, decimals_in), LAMBDA p1 :
    OkOrElse(checked_div(m1, p1),
             "Overflow in div during amount_fp calculation", LAMBDA amount_fp :
    \* 2. usd_fp = amount_fp * price_in / 10^8
    OkOrElse(checked_mul(amount_fp, price_in),
             "Overflow in mul during usd_fp calculation", LAMBDA m2 :
    OkOrElse(checked_div(m2, PRICE_SCALE),
             "Overflow in div during usd_fp calculation", LAMBDA usd_fp :
    \* 3. out_fp = usd_fp * 10^8 / price_out
    OkOrElse(checked_mul(usd_fp, PRICE_SCALE),
             "Overflow in mul during out_fp calculation", LAMBDA m3 :
    OkOrElse(checked_div(m3, price_out),
             "Overflow in div during out_fp calculation", LAMBDA out_fp :
    \* 4. out = out_fp * 10^decimals_out / SCALE
    Unless(pow10_u128(checks, decimals_out), LAMBDA p4 :
    OkOrElse(checked_mul(out_fp, p4),
             "Overflow in mul during final conversion", LAMBDA m4 :
    OkOrElse(checked_div(m4, SCALE),
             "Overflow in div during final conversion", LAMBDA out :
    \* u64::try_from(out)
    OkOrElse(checked(out, TwoPow64),
             "Overflow converting final output to u64", LAMBDA v : Ok(v))))))))))))

----------------------------------------------------------------------------
(* states/vault.rs: the fields of Vault the adapter and the math read.     *)

Vault(mint, oracle, fee, liquidity) ==
    [token_mint |-> mint, pyth_price_account |-> oracle,
     base_fee |-> fee, current_liquidity |-> liquidity]

----------------------------------------------------------------------------
(* components/fees_setting.rs and components/calculate_fee_amount.rs       *)

\* The rules by which fees_setting may combine the two vaults' base_fee.
FeeRules == {"max", "average", "destination"}

fees_setting(rule, vault_in, vault_out) ==
    CASE rule = "max" ->
           IF BigLe(vault_in.base_fee, vault_out.base_fee)
           THEN vault_out.base_fee ELSE vault_in.base_fee
      [] rule = "average" ->
           BigDiv(BigAdd(vault_in.base_fee, vault_out.base_fee), Big(2))
      [] rule = "destination" -> vault_out.base_fee

MAX_BPS == Big(10000)

\* gross * bps / 10_000 on u64, the multiplication checked.
fee_of(gross, bps) ==
    IF checked(BigMul(gross, bps), TwoPow64) = None THEN None
    ELSE Some(BigDiv(BigMul(gross, bps), MAX_BPS))

\* net = gross - (lp + protocol + partner), never below zero.
net_of(gross, fees, lp, protocol, partner) ==
    IF BigLt(gross, fees) THEN Err("FeeCalculationOverflow")
    ELSE Ok(<<BigSub(gross, fees), lp, protocol, partner>>)

\* Ok(<<net, lp_fee, protocol_fee, partner_fee>>), each fee floored on its own
\* and net the remainder of the gross amount.
calculate_fee_amount(gross, lp_fee_bps, protocol_fee_bps, partner_fee_bps) ==
    IF \E bps \in {lp_fee_bps, protocol_fee_bps, partner_fee_bps} : BigLt(MAX_BPS, bps)
    THEN Err("InvalidFeeBps") ELSE
    OkOrElse(fee_of(gross, lp_fee_bps), "FeeCalculationOverflow", LAMBDA lp :
    OkOrElse(fee_of(gross, protocol_fee_bps), "FeeCalculationOverflow", LAMBDA protocol :
    OkOrElse(fee_of(gross, partner_fee_bps), "FeeCalculationOverflow", LAMBDA partner :
    net_of(gross, BigAdd(BigAdd(lp, protocol), partner), lp, protocol, partner))))

----------------------------------------------------------------------------
(* components/swap_math.rs                                                 *)

\* a result whose net amount is the raw amount, the fees not taken off
result_without_fees(swap_fee_bps, raw_out, after_fee, lp_fee, protocol_fee, partner_fee) ==
    [swap_fee_bps |-> swap_fee_bps, raw_amount_out |-> raw_out,
     net_amount_out |-> raw_out, lp_fee_amount |-> lp_fee,
     protocol_fee_amount |-> protocol_fee, partner_fee_amount |-> partner_fee]

SwapMathResult(swap_fee_bps, raw_out, after_fee, lp_fee, protocol_fee, partner_fee) ==
    [swap_fee_bps |-> swap_fee_bps, raw_amount_out |-> raw_out,
     net_amount_out |-> after_fee, lp_fee_amount |-> lp_fee,
     protocol_fee_amount |-> protocol_fee, partner_fee_amount |-> partner_fee]

\* a.checked_add(b).and_then(|v| v.checked_add(c))
and_then_add(opt, c) == IF opt = None THEN None ELSE checked_add(opt[1], c)

\* step 2: swap_fee_bps + protocol_fee_bps + partner_fee_bps > 10_000, in u64
fees_exceed(total_bps) == BigLt(MAX_BPS, total_bps)

\* the gate with <= where the code has <, and with no gate at all
insufficient_or_equal(vault_out, total_out) == BigLe(vault_out.current_liquidity, total_out)
never_insufficient(vault_out, total_out) == FALSE

\* step 4: vault_out.current_liquidity < total_out
insufficient(vault_out, total_out) == BigLt(vault_out.current_liquidity, total_out)

swap_math_with(checks, swap_fee_bps, amount_in, price_in, price_out, decimals_in, decimals_out, vault_out, protocol_fee_bps, partner_fee_bps) ==
    \* 1. the raw output amount before any fees
    MapErr(raw_amount_out(checks, amount_in, decimals_in, decimals_out, price_in, price_out),
           "raw_amount_out failed: ", LAMBDA raw_out :
    \* 2. the total fees must not exceed 100%
    Unless(add_u64(checks, swap_fee_bps, protocol_fee_bps), LAMBDA f1 :
    Unless(add_u64(checks, f1, partner_fee_bps), LAMBDA total_bps :
    IF fees_exceed(total_bps) THEN Err("Total fee exceeds 100%") ELSE
    \* 3. the individual fees and the net output
    MapErr(calculate_fee_amount(raw_out, swap_fee_bps, protocol_fee_bps, partner_fee_bps),
           "calculate_fee_amount failed: ", LAMBDA split :
    \* 4. the vault must hold the gross total
    OkOrElse(and_then_add(and_then_add(checked_add(split[1], split[2]), split[3]), split[4]),
             "Overflow when summing fees", LAMBDA total_out :
    IF insufficient(vault_out, total_out) THEN Err("Insufficient liquidity in vault") ELSE
    \* 5. the result
    Ok(SwapMathResult(swap_fee_bps, raw_out, split[1], split[2], split[3], split[4])))))))

compute_swap_math(checks, rule, amount_in, price_in, price_out, decimals_in, decimals_out, vault_in, vault_out, protocol_fee_bps, partner_fee_bps) ==
    swap_math_with(checks, fees_setting(rule, vault_in, vault_out), amount_in, price_in,
                   price_out, decimals_in, decimals_out, vault_out, protocol_fee_bps,
                   partner_fee_bps)

----------------------------------------------------------------------------
(* Accounts.  An account is its owner and its data; the data is held       *)
(* decoded, tagged with the one layout its bytes deserialize as.           *)

PROGRAM_ID     == "oxe1SKL52HMLBDT2JQvdxscA1LbVc4EEwwSdNZcnDVH"
SPL_TOKEN      == "spl_token::ID"
SPL_TOKEN_2022 == "spl_token_2022::ID"
PYTH_RECEIVER  == "pyth_solana_receiver"
SYSTEM         == "system_program::ID"

SOL  == "So11111111111111111111111111111111111111112"
USDC == "EPjFWdd5AufqSSqeM2qN1xzybapC8G4wEGGkZwyTDt1v"

\* states/treasury.rs
Treasury(stoptap, fee_bps) == [stoptap |-> stoptap, fee_bps |-> fee_bps]

VaultAccount(v)     == [owner |-> PROGRAM_ID, data |-> [kind |-> "Vault", vault |-> v]]
TreasuryAccount(t)  == [owner |-> PROGRAM_ID, data |-> [kind |-> "Treasury", treasury |-> t]]
MintAccount(o, dec) == [owner |-> o, data |-> [kind |-> "Mint", decimals |-> dec]]
\* A PriceUpdateV2 whose price_message.price is the i64 (-1)^negative * magnitude.
PriceAccount(negative, magnitude) ==
    [owner |-> PYTH_RECEIVER,
     data |-> [kind |-> "PriceUpdateV2", negative |-> negative, magnitude |-> magnitude]]
JunkAccount(o)      == [owner |-> o, data |-> [kind |-> "Junk"]]

\* utils/helpers.rs parse_mint_decimals: Some(decimals) or None on any error.
parse_mint_decimals(account) ==
    IF account.owner \in {SPL_TOKEN, SPL_TOKEN_2022} /\ account.data.kind = "Mint"
    THEN Some(account.data.decimals) ELSE None

\* parse_pyth_price: the i64 price cast to u64 (two's complement), or None.
parse_pyth_price(acc) ==
    IF acc.data.kind # "PriceUpdateV2" THEN None
    ELSE IF acc.data.negative /\ acc.data.magnitude # Zero
         THEN Some(BigSub(TwoPow64, acc.data.magnitude))
         ELSE Some(acc.data.magnitude)

----------------------------------------------------------------------------
(* oxedium_amm.rs: OxediumAmm                                              *)

EmptyMap == [k \in {} |-> Zero]

\* step 1 of update: the program's accounts that deserialize as a Vault ...
parsed_vaults(account_map) ==
    [pk \in {k \in DOMAIN account_map :
                /\ account_map[k].owner = PROGRAM_ID
                /\ account_map[k].data.kind = "Vault"} |-> account_map[pk].data.vault]

\* ... and those that deserialize as a Treasury, as Some((pk, treasury)).
parsed_treasuries(account_map) ==
    {Some(<<k, account_map[k].data.treasury>>) :
        k \in {k \in DOMAIN account_map :
                  /\ account_map[k].owner = PROGRAM_ID
                  /\ account_map[k].data.kind = "Treasury"}}

\* step 2 of update: mint -> decimals, for the vaults whose mint account parses.
loaded_decimals(vs, account_map) ==
    LET ok == {pk \in DOMAIN vs :
                 /\ vs[pk].token_mint \in DOMAIN account_map
                 /\ parse_mint_decimals(account_map[vs[pk].token_mint]) # None}
    IN  [m \in {vs[pk].token_mint : pk \in ok} |-> parse_mint_decimals(account_map[m])[1]]

\* step 3 of update: for each mint, the prices its vaults' oracle accounts
\* parse to; the map keeps one of them per mint, the last inserted.
price_candidates(vs, account_map) ==
    LET ok == {pk \in DOMAIN vs :
                 /\ vs[pk].pyth_price_account \in DOMAIN account_map
                 /\ parse_pyth_price(account_map[vs[pk].pyth_price_account]) # None}
    IN  [m \in {vs[pk].token_mint : pk \in ok} |->
            {parse_pyth_price(account_map[vs[pk].pyth_price_account])[1] :
                pk \in {k \in ok : vs[k].token_mint = m}}]

QuoteParams(input_mint, output_mint, amount) ==
    [input_mint |-> input_mint, output_mint |-> output_mint, amount |-> amount]

\* self.decimals.get(mint).unwrap_or(&0)
decimals_or_zero(decs, mint) == IF mint \in DOMAIN decs THEN decs[mint] ELSE 0

\* a quote that leaves the protocol fee out
no_treasury_fee(tr) == Zero

\* self.treasury.as_ref().map(|(_, t)| t.fee_bps).unwrap_or(0)
treasury_fee_bps(tr) == IF tr = None THEN Zero ELSE tr[1][2].fee_bps

\* Decimal::from(total_fee) / Decimal::from(params.amount): the division
\* panics on a zero divisor; fee_pct is held as the exact ratio it rounds.
div_decimal(total_fee, amount) ==
    IF amount = Zero THEN [panic |-> TRUE, v |-> <<>>]
    ELSE [panic |-> FALSE, v |-> <<total_fee, amount>>]

\* quote, from the two vaults found on.
quote_vaults(checks, rule, tr, decs, prs, params, vault_in, vault_out) ==
    IF vault_in.token_mint \notin DOMAIN prs THEN Err("price_in missing") ELSE
    IF vault_out.token_mint \notin DOMAIN prs THEN Err("price_out missing") ELSE
    Question(compute_swap_math(checks, rule, params.amount,
                               prs[vault_in.token_mint], prs[vault_out.token_mint],
                               decimals_or_zero(decs, vault_in.token_mint),
                               decimals_or_zero(decs, vault_out.token_mint),
                               vault_in, vault_out, treasury_fee_bps(tr), Zero),
             LAMBDA result :
    Unless(add_u64(checks, result.lp_fee_amount, result.protocol_fee_amount), LAMBDA t1 :
    Unless(add_u64(checks, t1, result.partner_fee_amount), LAMBDA total_fee :
    Unless(div_decimal(total_fee, params.amount), LAMBDA fee_pct :
    Ok([in_amount |-> params.amount, out_amount |-> result.net_amount_out,
        fee_amount |-> total_fee, fee_mint |-> vault_out.token_mint,
        fee_pct |-> fee_pct])))))

\* self.vaults.values().find(|v| v.token_mint == mint): the first vault of the
\* mint in the map's iteration order, which fnd holds for each mint.
find_vault(vs, fnd, mint) == IF mint \in DOMAIN fnd THEN Some(vs[fnd[mint]]) ELSE None

\* the vaults find can yield, one per mint, over the iteration orders of vs
find_orders(vs) ==
    {f \in [{vs[pk].token_mint : pk \in DOMAIN vs} -> DOMAIN vs] :
        \A m \in DOMAIN f : vs[f[m]].token_mint = m}

\* quote, with the vaults find yields under the iteration order of the map
quote_found(checks, rule, vs, tr, decs, prs, fnd, params) ==
    IF params.input_mint \notin DOMAIN prs \/ params.output_mint \notin DOMAIN prs
    THEN Err("oracle not ready") ELSE
    OkOrElse(find_vault(vs, fnd, params.input_mint), "vault_in not found", LAMBDA vault_in :
    OkOrElse(find_vault(vs, fnd, params.output_mint), "vault_out not found", LAMBDA vault_out :
    quote_vaults(checks, rule, tr, decs, prs, params, vault_in, vault_out)))

\* quote: the outcomes the call can have over every iteration order of the
\* vaults map.
quote(checks, rule, vs, tr, decs, prs, params) ==
    {quote_found(checks, rule, vs, tr, decs, prs, fnd, params) : fnd \in find_orders(vs)}

----------------------------------------------------------------------------
VARIABLES
    overflow_checks,   \* the build: TRUE when integer overflow checks are on
    fee_rule,          \* the rule fees_setting applies
    vaults,            \* OxediumAmm.vaults: vault PDA -> Vault
    treasury,          \* OxediumAmm.treasury: None or Some((pk, Treasury))
    decimals,          \* OxediumAmm.decimals: mint -> decimals
    prices,            \* OxediumAmm.prices: mint -> price
    found,             \* per mint, the first of its vaults in the iteration order of vaults
    loaded,            \* the account map of the most recent update, if any
    before,            \* what the adapter held when the most recent update began, if traced
    call               \* the call in hand: its arguments and, once made, its outcome

amm  == <<vaults, treasury, decimals, prices, found>>
vars == <<overflow_checks, fee_rule, vaults, treasury, decimals, prices, found, loaded, before, call>>

\* the four fields update refreshes
snapshot == [vaults |-> vaults, treasury |-> treasury, decimals |-> decimals, prices |-> prices]

\* from_keyed_account and clone_amm: nothing loaded.
EmptyAmm ==
    /\ vaults = EmptyMap
    /\ treasury = None
    /\ decimals = EmptyMap
    /\ prices = EmptyMap
    /\ found = EmptyMap
    /\ loaded = None
    /\ before = None

\* an update that goes on to load prices under a stopped treasury
treasury_missing(tr) == tr = None

\* update returns before loading decimals and prices: the treasury is
\* required, and a stopped treasury loads nothing further.
update_returns_early(tr) == tr = None \/ tr[1][2].stoptap

\* an update that clears nothing first
kept(map) == map

\* map.clear()
cleared(map) == EmptyMap

\* map.insert(k, v) for every entry of entries
inserted(map, entries) ==
    [k \in DOMAIN map \cup DOMAIN entries |-> IF k \in DOMAIN entries THEN entries[k] ELSE map[k]]

\* update, on the fields of the adapter
refresh(account_map) ==
    /\ vaults' = inserted(cleared(vaults), parsed_vaults(account_map))
    /\ found' \in find_orders(vaults')
    /\ treasury' \in (IF parsed_treasuries(account_map) = {} THEN {None}
                       ELSE parsed_treasuries(account_map))
    /\ IF update_returns_early(treasury')
       THEN decimals' = cleared(decimals) /\ prices' = cleared(prices)
       ELSE /\ decimals' = inserted(cleared(decimals), loaded_decimals(vaults', account_map))
            /\ LET cands == price_candidates(vaults', account_map)
               IN  prices' \in {inserted(cleared(prices), f) :
                                  f \in {f \in [DOMAIN cands -> UNION {cands[m] : m \in DOMAIN cands}] :
                                            \A m \in DOMAIN cands : f[m] \in cands[m]}}
    /\ loaded' = Some(account_map)
    /\ call' = [fn |-> "update", out |-> Ok(<<>>)]
    /\ UNCHANGED <<overflow_checks, fee_rule>>

Update(account_map) == refresh(account_map) /\ UNCHANGED before

\* update, keeping track of what it replaces
TracedUpdate(account_map) == refresh(account_map) /\ before' = Some(snapshot)

Quote(params) ==
    /\ call' = [fn |-> "quote", params |-> params,
                out |-> quote_found(overflow_checks, fee_rule, vaults, treasury,
                                    decimals, prices, found, params)]
    /\ UNCHANGED <<overflow_checks, fee_rule, amm, loaded, before>>

\* clone_amm: the clone starts with nothing loaded.
CloneAmm ==
    /\ vaults' = EmptyMap
    /\ treasury' = None
    /\ decimals' = EmptyMap
    /\ prices' = EmptyMap
    /\ found' = EmptyMap
    /\ loaded' = None
    /\ before' = None
    /\ call' = [fn |-> "clone_amm"]
    /\ UNCHANGED <<overflow_checks, fee_rule>>

----------------------------------------------------------------------------
(* The accounts a driver may hand to update: the accounts of a healthy     *)
(* pool, and the same with an account missing, stale or malformed.         *)

SolPrice  == BigMul(Big(135), Pow10(8))
UsdcPrice == Pow10(8)

TREASURY_PDA == "treasury_pda"
VaultPda(mint) == IF mint = SOL THEN "vault_pda_sol" ELSE "vault_pda_usdc"

BaseMap ==
    [k \in {TREASURY_PDA, VaultPda(SOL), VaultPda(USDC), SOL, USDC, "pyth_sol", "pyth_usdc"} |->
        CASE k = TREASURY_PDA   -> TreasuryAccount(Treasury(FALSE, Big(1)))
          [] k = VaultPda(SOL)  -> VaultAccount(Vault(SOL, "pyth_sol", Big(1), Pow10(12)))
          [] k = VaultPda(USDC) -> VaultAccount(Vault(USDC, "pyth_usdc", Big(1), Pow10(12)))
          [] k = SOL            -> MintAccount(SPL_TOKEN, 9)
          [] k = USDC           -> MintAccount(SPL_TOKEN, 6)
          [] k = "pyth_sol"     -> PriceAccount(FALSE, SolPrice)
          [] k = "pyth_usdc"    -> PriceAccount(FALSE, UsdcPrice)]

Without(m, key) == [k \in DOMAIN m \ {key} |-> m[k]]
With(m, key, acc) == [k \in DOMAIN m \cup {key} |-> IF k = key THEN acc ELSE m[k]]

AccountMaps ==
    {BaseMap,
     Without(BaseMap, TREASURY_PDA),
     With(BaseMap, TREASURY_PDA, TreasuryAccount(Treasury(TRUE, Big(1)))),
     With(BaseMap, TREASURY_PDA, TreasuryAccount(Treasury(FALSE, Big(10000)))),
     With(BaseMap, TREASURY_PDA, TreasuryAccount(Treasury(FALSE, Big(9999)))),
     With(BaseMap, TREASURY_PDA,
          [owner |-> SYSTEM, data |-> [kind |-> "Treasury", treasury |-> Treasury(FALSE, Big(1))]]),
     Without(BaseMap, VaultPda(SOL)),
     With(BaseMap, VaultPda(USDC), VaultAccount(Vault(USDC, "pyth_usdc", Big(1), Zero))),
     With(BaseMap, "vault_other", VaultAccount(Vault(SOL, "pyth_sol", Big(30), Pow10(9)))),
     Without(BaseMap, SOL),
     With(BaseMap, SOL, MintAccount(SYSTEM, 9)),
     Without(BaseMap, USDC),
     With(BaseMap, USDC, MintAccount(SPL_TOKEN_2022, 39)),
     Without(Without(BaseMap, SOL), USDC),
     Without(BaseMap, "pyth_sol"),
     With(BaseMap, "pyth_usdc", JunkAccount(PYTH_RECEIVER)),
     With(BaseMap, "pyth_usdc", PriceAccount(FALSE, Zero)),
     With(With(BaseMap, TREASURY_PDA, TreasuryAccount(Treasury(TRUE, Big(1)))),
          VaultPda(USDC), VaultAccount(Vault(USDC, "pyth_usdc", Big(1), Zero)))}

QuoteAmounts == {Zero, Big(1), Pow10(9)}

QuoteParamsSet ==
    {QuoteParams(i, o, a) : i \in {SOL, USDC}, o \in {SOL, USDC}, a \in QuoteAmounts}

Init ==
    /\ overflow_checks \in BOOLEAN
    /\ fee_rule \in FeeRules
    /\ EmptyAmm
    /\ call = [fn |-> "from_keyed_account"]

Next ==
    \/ \E account_map \in AccountMaps : Update(account_map)
    \/ \E params \in QuoteParamsSet : Quote(params)
    \/ CloneAmm

Spec == Init /\ [][Next]_vars

----------------------------------------------------------------------------
(* raw_amount_out as a pure function: the arguments are drawn in the       *)
(* initial state and the one action makes the call, for amount_in and for  *)
(* a second amount amount_hi >= amount_in under the same prices and        *)
(* decimals.                                                               *)

MaxDust == 2

DustAmounts == {Big(n) : n \in 0..MaxDust}

RawAmounts ==
    DustAmounts \cup {Pow10(7), BigMul(Big(2), Pow10(7)), Pow10(9), U64_MAX}

\* <<price_in, price_out>>
RawPrices == {<<SolPrice, UsdcPrice>>, <<UsdcPrice, SolPrice>>, <<U64_MAX, U64_MAX>>,
              <<Big(1), U64_MAX>>, <<SolPrice, Zero>>, <<U64_MAX, Zero>>}

\* <<decimals_in, decimals_out>>
RawDecimals == {<<9, 6>>, <<6, 9>>, <<0, 0>>, <<38, 0>>, <<39, 6>>, <<9, 39>>, <<0, 128>>}

RawInit ==
    /\ overflow_checks \in BOOLEAN
    /\ fee_rule = "max"
    /\ EmptyAmm
    /\ \E a \in RawAmounts, h \in RawAmounts, d \in RawDecimals, p \in RawPrices :
          /\ BigLe(a, h)
          /\ call = [fn |-> "raw_amount_out", done |-> FALSE,
                     amount_in |-> a, amount_hi |-> h,
                     decimals_in |-> d[1], decimals_out |-> d[2],
                     price_in |-> p[1], price_out |-> p[2],
                     out |-> Panic, out_hi |-> Panic]

CallRawAmountOut ==
    /\ call.fn = "raw_amount_out"
    /\ ~call.done
    /\ call' = [call EXCEPT
                  !.done = TRUE,
                  !.out = raw_amount_out(overflow_checks, call.amount_in,
                              call.decimals_in, call.decimals_out,
                              call.price_in, call.price_out),
                  !.out_hi = raw_amount_out(overflow_checks, call.amount_hi,
                              call.decimals_in, call.decimals_out,
                              call.price_in, call.price_out)]
    /\ UNCHANGED <<overflow_checks, fee_rule, amm, loaded, before>>

RawNext == CallRawAmountOut

RawSpec == RawInit /\ [][RawNext]_vars

----------------------------------------------------------------------------
(* compute_swap_math as a pure function, in the same way.                  *)

MathAmounts == DustAmounts \cup {Pow10(9), U64_MAX}

\* <<price_in, price_out, decimals_in, decimals_out>>
MathMarkets == {<<SolPrice, UsdcPrice, 9, 6>>, <<UsdcPrice, SolPrice, 6, 9>>,
                <<SolPrice, Zero, 9, 6>>, <<SolPrice, UsdcPrice, 9, 0>>}

\* <<vault_in.base_fee, vault_out.base_fee, protocol_fee_bps, partner_fee_bps>>
MathFees == {<<Big(1), Big(1), Zero, Zero>>,
             <<Big(1), Big(1), Big(1), Zero>>,
             <<Big(1), Big(1), Big(9999), Big(1)>>,
             <<Zero, Zero, Zero, Zero>>,
             <<Big(30), Big(10), Big(25), Big(5)>>,
             <<Big(3000), Big(3000), Big(3000), Big(4000)>>,
             <<Big(1), Big(1), Big(10000), Zero>>,
             <<Zero, Zero, U64_MAX, Big(1)>>}

\* vault_out.current_liquidity: empty, one unit short of 135 USDC, 135 USDC, ample.
MathLiquidity == {Zero, Big(134999999), Big(135000000), Pow10(12)}

MathInit ==
    /\ overflow_checks \in BOOLEAN
    /\ fee_rule \in FeeRules
    /\ EmptyAmm
    /\ \E a \in MathAmounts, m \in MathMarkets, f \in MathFees, l \in MathLiquidity :
          call = [fn |-> "compute_swap_math", done |-> FALSE,
                  amount_in |-> a, price_in |-> m[1], price_out |-> m[2],
                  decimals_in |-> m[3], decimals_out |-> m[4],
                  vault_in |-> Vault(SOL, "pyth_in", f[1], Pow10(12)),
                  vault_out |-> Vault(USDC, "pyth_out", f[2], l),
                  protocol_fee_bps |-> f[3], partner_fee_bps |-> f[4],
                  out |-> Panic]

CallComputeSwapMath ==
    /\ call.fn = "compute_swap_math"
    /\ ~call.done
    /\ call' = [call EXCEPT
                  !.done = TRUE,
                  !.out = compute_swap_math(overflow_checks, fee_rule, call.amount_in,
                              call.price_in, call.price_out, call.decimals_in,
                              call.decimals_out, call.vault_in, call.vault_out,
                              call.protocol_fee_bps, call.partner_fee_bps)]
    /\ UNCHANGED <<overflow_checks, fee_rule, amm, loaded, before>>

MathNext == CallComputeSwapMath

MathSpec == MathInit /\ [][MathNext]_vars

----------------------------------------------------------------------------
(* Properties of compute_swap_math, under MathSpec.                        *)

MathDone == call.fn = "compute_swap_math" /\ call.done

\* the three fee rates of the call and their sum over the integers
SwapFeeBps == fees_setting(fee_rule, call.vault_in, call.vault_out)
FeeSum == BigAdd(BigAdd(SwapFeeBps, call.protocol_fee_bps), call.partner_fee_bps)

\* the pricing step and the fee-split step of the call, taken on their own
RawOf == raw_amount_out(overflow_checks, call.amount_in, call.decimals_in, call.decimals_out, call.price_in, call.price_out)
SplitOf(raw) ==
    IF raw.tag = "Ok"
    THEN calculate_fee_amount(raw.val, SwapFeeBps, call.protocol_fee_bps, call.partner_fee_bps)
    ELSE raw

\* pricing, fee cap and fee split all succeed
StepsSucceed(raw, split) == raw.tag = "Ok" /\ BigLe(FeeSum, MAX_BPS) /\ split.tag = "Ok"

\* net + lp_fee + protocol_fee + partner_fee of the split
TotalOut(split) == BigAdd(BigAdd(BigAdd(split.val[1], split.val[2]), split.val[3]), split.val[4])

SumOfParts(r) == BigAdd(BigAdd(BigAdd(r.net_amount_out, r.lp_fee_amount), r.protocol_fee_amount), r.partner_fee_amount)

InsufficientLiquidity == Err("Insufficient liquidity in vault")
FeesExceedMaximum == Err("Total fee exceeds 100%")

\* C1: whenever compute_swap_math returns Ok for fee rates summing to at most
\* 10_000 bps, net_amount_out + lp_fee_amount + protocol_fee_amount +
\* partner_fee_amount equals raw_amount_out exactly.
C1_Reconciliation ==
    (MathDone /\ call.out.tag = "Ok" /\ BigLe(FeeSum, MAX_BPS))
        => SumOfParts(call.out.val) = call.out.val.raw_amount_out

\* C1 happens: an Ok result with three positive fees, the LP fee rounded down.
C1_Witness ==
    /\ MathDone /\ call.out.tag = "Ok" /\ BigLe(FeeSum, MAX_BPS)
    /\ call.out.val.lp_fee_amount # Zero
    /\ call.out.val.protocol_fee_amount # Zero
    /\ call.out.val.partner_fee_amount # Zero
    /\ BigMod(BigMul(call.out.val.raw_amount_out, SwapFeeBps), MAX_BPS) # Zero
    /\ BigLt(call.out.val.net_amount_out, call.out.val.raw_amount_out)

\* C2: whenever the three fee rates sum, over the integers, to more than
\* 10_000, compute_swap_math fails with "Total fee exceeds 100%", whatever the
\* amount, the prices, the decimals and the liquidity.
C2_FeeCap ==
    (MathDone /\ BigLt(MAX_BPS, FeeSum)) => call.out = FeesExceedMaximum

\* C3: when pricing, fee cap and fee split succeed, compute_swap_math fails
\* with "Insufficient liquidity in vault" exactly when the gross total
\* net + lp_fee + protocol_fee + partner_fee is strictly greater than
\* vault_out.current_liquidity, and succeeds otherwise (equality included).
C3_LiquidityGate ==
    MathDone =>
        LET raw == RawOf
            split == SplitOf(raw)
            total_out == TotalOut(split)
        IN  StepsSucceed(raw, split) =>
                /\ (call.out = InsufficientLiquidity)
                      <=> BigLt(call.vault_out.current_liquidity, total_out)
                /\ BigLe(total_out, call.vault_out.current_liquidity)
                      => call.out.tag = "Ok"

\* C3 happens: the gross total equals the liquidity, fees are charged (so the
\* net alone is below the liquidity) and the call succeeds.
C3_Witness ==
    /\ MathDone
    /\ call.out.tag = "Ok"
    /\ LET raw == RawOf
           split == SplitOf(raw)
           total_out == TotalOut(split)
       IN  /\ StepsSucceed(raw, split)
           /\ total_out = call.vault_out.current_liquidity
           /\ total_out # Zero
           /\ BigLt(call.out.val.net_amount_out, total_out)

\* C10 as written: with vault_out.current_liquidity = 0, every positive
\* amount_in (positive prices, fee rates within the cap, pricing and fee split
\* succeeding) fails with "Insufficient liquidity in vault".
C10_EmptyVaultAlwaysFails ==
    (/\ MathDone
     /\ call.vault_out.current_liquidity = Zero
     /\ call.amount_in # Zero /\ call.price_in # Zero /\ call.price_out # Zero)
        => LET raw == RawOf
           IN  StepsSucceed(raw, SplitOf(raw)) => call.out = InsufficientLiquidity

\* C10 amended: with vault_out.current_liquidity = 0 and a positive
\* amount_in, compute_swap_math fails with "Insufficient liquidity in vault"
\* exactly when the converted raw output is at least 1; a dust amount whose
\* raw output rounds down to 0 succeeds, with every amount of the result 0.
C10_EmptyVault ==
    (/\ MathDone
     /\ call.vault_out.current_liquidity = Zero
     /\ call.amount_in # Zero /\ call.price_in # Zero /\ call.price_out # Zero)
        => LET raw == RawOf
           IN  StepsSucceed(raw, SplitOf(raw)) =>
                   IF raw.val = Zero
                   THEN /\ call.out.tag = "Ok"
                        /\ call.out.val.raw_amount_out = Zero
                        /\ call.out.val.net_amount_out = Zero
                        /\ SumOfParts(call.out.val) = Zero
                   ELSE call.out = InsufficientLiquidity

\* C10 happens: one base unit into an empty vault, worth a few units of
\* output, is refused.
C10_Witness ==
    /\ MathDone
    /\ call.vault_out.current_liquidity = Zero
    /\ call.amount_in = Big(1) /\ call.price_in # Zero /\ call.price_out # Zero
    /\ call.out = InsufficientLiquidity
    /\ LET raw == RawOf
       IN  StepsSucceed(raw, SplitOf(raw)) /\ raw.val # Zero

----------------------------------------------------------------------------
(* Properties of raw_amount_out, under RawSpec.                            *)

RawDone == call.fn = "raw_amount_out" /\ call.done

\* the error raw_amount_out returns for the division by price_out of step 3
InvalidPrice == Err("Overflow in div during out_fp calculation")

\* C5: every call of raw_amount_out with price_out = 0 fails with the error
\* of the zero price, for every amount_in, price_in and decimals; it never
\* crashes and never reports another outcome.
C5_ZeroPriceOut ==
    (RawDone /\ call.price_out = Zero) => call.out = InvalidPrice

\* C8: raw_amount_out never aborts, and whenever 10^decimals_in or
\* 10^decimals_out does not fit in 128 bits the call fails with an error
\* rather than going on with a wrapped power.
C8_OverflowChecked ==
    RawDone =>
        /\ call.out.tag # "Panic"
        /\ (~FitsU128(Pow10(call.decimals_in)) \/ ~FitsU128(Pow10(call.decimals_out)))
              => call.out.tag = "Err"

\* C9: for fixed decimals and positive prices, if raw_amount_out succeeds for
\* amount_in and for amount_hi >= amount_in, the output for amount_in is at
\* most the output for amount_hi.
C9_Monotonic ==
    (/\ RawDone
     /\ call.price_in # Zero /\ call.price_out # Zero
     /\ BigLe(call.amount_in, call.amount_hi)
     /\ call.out.tag = "Ok" /\ call.out_hi.tag = "Ok")
        => BigLe(call.out.val, call.out_hi.val)

\* C9 happens: two amounts, the second larger, both converted, the second
\* to strictly more.
C9_Witness ==
    /\ RawDone
    /\ call.price_in # Zero /\ call.price_out # Zero
    /\ BigLt(call.amount_in, call.amount_hi)
    /\ call.out.tag = "Ok" /\ call.out_hi.tag = "Ok"
    /\ BigLt(call.out.val, call.out_hi.val)

----------------------------------------------------------------------------
(* Properties of the adapter, under Spec.                                  *)

\* the treasury the most recent update loaded has stoptap set
Stopped == treasury # None /\ treasury[1][2].stoptap

\* every outcome of every quote in the current state
QuoteOutcomes ==
    UNION {quote(overflow_checks, fee_rule, vaults, treasury, decimals, prices, params) :
              params \in QuoteParamsSet}

\* C4: while the treasury loaded by the most recent update has stoptap set,
\* every quote returns an error: no Quote is produced.
C4_KillSwitch ==
    Stopped =>
        /\ \A o \in QuoteOutcomes : o.tag = "Err"
        /\ call.fn = "quote" => call.out.tag = "Err"

\* C4 happens: an update whose accounts hold both vaults, both mints and both
\* oracle prices, with the treasury stopped, and then a quote of one SOL.
C4_Witness ==
    /\ Stopped
    /\ loaded # None
    /\ {VaultPda(SOL), VaultPda(USDC), SOL, USDC, "pyth_sol", "pyth_usdc"} \subseteq DOMAIN loaded[1]
    /\ DOMAIN vaults = {VaultPda(SOL), VaultPda(USDC)}
    /\ call.fn = "quote"
    /\ call.params = QuoteParams(SOL, USDC, Pow10(9))
    /\ call.out = Err("oracle not ready")

\* C6: a quote from one mint to another, made while the decimals of its input
\* mint or of its output mint are absent, does not produce a Quote.
C6_NoDefaultDecimals ==
    (/\ call.fn = "quote"
     /\ call.params.input_mint # call.params.output_mint
     /\ \/ call.params.input_mint \notin DOMAIN decimals
        \/ call.params.output_mint \notin DOMAIN decimals)
        => call.out.tag # "Ok"

\* C7: every quote from one mint to another, for every amount including 0 and
\* in every state, returns a Quote or an error; it never aborts.
C7_NoAbort ==
    (call.fn = "quote" /\ call.params.input_mint # call.params.output_mint)
        => call.out.tag \in {"Ok", "Err"}

QuoteOk == call.fn = "quote" /\ call.out.tag = "Ok"

\* the vaults of the snapshot that hold a mint
VaultsOf(mint) == {pk \in DOMAIN vaults : vaults[pk].token_mint = mint}

\* compute_swap_math for params on the vaults i and o of the snapshot, with
\* protocol_fee_bps = treasury.fee_bps and partner_fee_bps = 0
SwapMathOf(params, i, o) == compute_swap_math(overflow_checks, fee_rule, params.amount, prices[vaults[i].token_mint], prices[vaults[o].token_mint], decimals_or_zero(decimals, vaults[i].token_mint), decimals_or_zero(decimals, vaults[o].token_mint), vaults[i], vaults[o], treasury[1][2].fee_bps, Zero)

FeesOf(r) == BigAdd(BigAdd(r.lp_fee_amount, r.protocol_fee_amount), r.partner_fee_amount)

\* the Quote q is put together from the SwapMathResult r
ComposedFrom(q, params, r, vault_out) ==
    /\ q.in_amount = params.amount
    /\ q.fee_mint = vault_out.token_mint
    /\ q.out_amount = r.net_amount_out
    /\ q.fee_amount = FeesOf(r)
    /\ BigAdd(q.out_amount, q.fee_amount) = r.raw_amount_out

\* the three fee rates of r's call sum to less than 10_000 bps
BelowFullFee(r) == BigLt(BigAdd(r.swap_fee_bps, treasury[1][2].fee_bps), MAX_BPS)

\* C11 as written: every successful quote from one mint to another is composed from the result of
\* compute_swap_math (protocol_fee_bps = treasury.fee_bps, partner_fee_bps = 0)
\* on a vault of each mint, and whenever a fee of at least one unit is
\* charged, out_amount > 0, fee_amount > 0 and out_amount < raw_amount_out.
C11_PositiveOutput ==
    (QuoteOk /\ call.params.input_mint # call.params.output_mint) =>
        /\ treasury # None
        /\ \E i \in VaultsOf(call.params.input_mint), o \in VaultsOf(call.params.output_mint) :
              LET r == SwapMathOf(call.params, i, o)
              IN  /\ r.tag = "Ok"
                  /\ ComposedFrom(call.out.val, call.params, r.val, vaults[o])
                  /\ FeesOf(r.val) # Zero =>
                        /\ call.out.val.out_amount # Zero
                        /\ call.out.val.fee_amount # Zero
                        /\ BigLt(call.out.val.out_amount, r.val.raw_amount_out)

\* C11 amended: every successful quote is composed from the result of
\* compute_swap_math (protocol_fee_bps = treasury.fee_bps, partner_fee_bps = 0)
\* on a vault of each mint; whenever a fee of at least one unit is charged,
\* fee_amount > 0 and out_amount < raw_amount_out, and out_amount > 0 if the
\* fee rates sum to less than 10_000 bps.
C11_Composition ==
    QuoteOk =>
        /\ treasury # None
        /\ \E i \in VaultsOf(call.params.input_mint), o \in VaultsOf(call.params.output_mint) :
              LET r == SwapMathOf(call.params, i, o)
              IN  /\ r.tag = "Ok"
                  /\ ComposedFrom(call.out.val, call.params, r.val, vaults[o])
                  /\ FeesOf(r.val) # Zero =>
                        /\ call.out.val.fee_amount # Zero
                        /\ BigLt(call.out.val.out_amount, r.val.raw_amount_out)
                        /\ BelowFullFee(r.val) => call.out.val.out_amount # Zero

\* C11 happens: Scenario A, one SOL for USDC on the healthy pool, with an LP
\* fee and a protocol fee charged.
C11_Witness ==
    /\ QuoteOk
    /\ call.params = QuoteParams(SOL, USDC, Pow10(9))
    /\ treasury # None
    /\ treasury[1][2].fee_bps = Big(1)
    /\ DOMAIN decimals = {SOL, USDC}
    /\ call.out.val.fee_amount # Zero
    /\ call.out.val.out_amount # Zero
    /\ BigAdd(call.out.val.out_amount, call.out.val.fee_amount) = BigMul(Big(135), Pow10(6))

\* the outcome of quote(params) on the snapshot, were find to yield the vaults fnd
OutcomeUnder(fnd, params) == quote_found(overflow_checks, fee_rule, vaults, treasury, decimals, prices, fnd, params)

\* C12: a quote's outcome is a function of params and of the snapshot
\* (vaults, treasury, decimals, prices): whatever the iteration order of the
\* vaults map, the outcome is the one the adapter gives.
C12_Deterministic ==
    \A params \in QuoteParamsSet : \A fnd \in find_orders(vaults) :
        OutcomeUnder(fnd, params) = OutcomeUnder(found, params)

----------------------------------------------------------------------------
(* Sequences of updates: every update is handed any of the account maps,   *)
(* and what it replaces is kept for comparison.                            *)

RefreshInit == Init

RefreshNext ==
    \/ \E account_map \in AccountMaps : TracedUpdate(account_map)
    \/ CloneAmm

RefreshSpec == RefreshInit /\ [][RefreshNext]_vars

\* the vaults with this token_mint among vs
vaults_of(vs, mint) == {pk \in DOMAIN vs : vs[pk].token_mint = mint}

\* C13: after any sequence of updates the vaults, the treasury, the decimals
\* and the prices all come from the account map of the most recent update:
\* each vault and the treasury is a program-owned account of that map, each
\* decimals entry parses from the mint account of that map, each price parses
\* from an oracle account of that map, and every key of decimals and prices
\* is the token_mint of a vault in vaults; before any update all are empty.
C13_WholesaleRefresh ==
    IF loaded = None
    THEN vaults = EmptyMap /\ treasury = None /\ decimals = EmptyMap /\ prices = EmptyMap
    ELSE LET account_map == loaded[1]
         IN  /\ \A pk \in DOMAIN vaults :
                    /\ pk \in DOMAIN account_map
                    /\ account_map[pk] = VaultAccount(vaults[pk])
             /\ \A pk \in DOMAIN account_map :
                    (account_map[pk].owner = PROGRAM_ID /\ account_map[pk].data.kind = "Vault")
                        => pk \in DOMAIN vaults
             /\ treasury # None =>
                    /\ treasury[1][1] \in DOMAIN account_map
                    /\ account_map[treasury[1][1]] = TreasuryAccount(treasury[1][2])
             /\ \A mint \in DOMAIN decimals :
                    /\ vaults_of(vaults, mint) # {}
                    /\ mint \in DOMAIN account_map
                    /\ parse_mint_decimals(account_map[mint]) = Some(decimals[mint])
             /\ \A mint \in DOMAIN prices :
                    \E pk \in vaults_of(vaults, mint) :
                        /\ vaults[pk].pyth_price_account \in DOMAIN account_map
                        /\ parse_pyth_price(account_map[vaults[pk].pyth_price_account])
                              = Some(prices[mint])

\* C13 happens: an update that had loaded the SOL vault, its decimals and its
\* price is followed by one whose account map lacks the SOL vault.
C13_Witness ==
    /\ before # None
    /\ VaultPda(SOL) \in DOMAIN before[1].vaults
    /\ SOL \in DOMAIN before[1].decimals
    /\ SOL \in DOMAIN before[1].prices
    /\ call.fn = "update"
    /\ VaultPda(SOL) \notin DOMAIN loaded[1]
    /\ VaultPda(SOL) \notin DOMAIN vaults
    /\ SOL \notin DOMAIN decimals
    /\ SOL \notin DOMAIN prices
    /\ USDC \in DOMAIN prices

----------------------------------------------------------------------------
(* The driver: before each update it asks the adapter which accounts to    *)
(* load, reads exactly those from the chain and hands them to update.      *)

ALL_POSSIBLE_MINTS == <<SOL, USDC>>

\* a listing that names the oracle accounts before any vault is parsed
accounts_with_oracles(vs) == DOMAIN BaseMap

\* get_accounts_to_update: the keys it lists.
get_accounts_to_update(vs) ==
    {TREASURY_PDA}
        \cup UNION {{VaultPda(ALL_POSSIBLE_MINTS[i]), ALL_POSSIBLE_MINTS[i]} :
                       i \in DOMAIN ALL_POSSIBLE_MINTS}
        \cup {vs[pk].pyth_price_account : pk \in DOMAIN vs}

\* the accounts of the chain under the listed keys; a key with no account is left out
fetch(chain, keys) == [k \in DOMAIN chain \cap keys |-> chain[k]]

DriverUpdate(chain) == TracedUpdate(fetch(chain, get_accounts_to_update(vaults)))

\* what the chain may hold when the driver reads it: the healthy pool, or the
\* pool with the treasury missing or stopped, a vault or an oracle account
\* missing, or a stale oracle
Chains ==
    {BaseMap,
     Without(BaseMap, TREASURY_PDA),
     With(BaseMap, TREASURY_PDA, TreasuryAccount(Treasury(TRUE, Big(1)))),
     Without(BaseMap, VaultPda(SOL)),
     Without(BaseMap, "pyth_sol"),
     With(BaseMap, "pyth_usdc", JunkAccount(PYTH_RECEIVER))}

DriverQuotes ==
    {QuoteParams(i, o, a) : i \in {SOL, USDC}, o \in {SOL, USDC}, a \in {Zero, Pow10(9)}}

DriverInit == Init

DriverNext ==
    \/ \E chain \in Chains : DriverUpdate(chain)
    \/ \E params \in DriverQuotes : Quote(params)
    \/ CloneAmm

DriverSpec == DriverInit /\ [][DriverNext]_vars

OracleNotReady == Err("oracle not ready")

\* the account map holds what a quote between the two mints needs: a treasury
\* that is not stopped, the vault and the mint of each of ALL_POSSIBLE_MINTS,
\* and for each vault its oracle account, with a price
AllValid(account_map) ==
    /\ TREASURY_PDA \in DOMAIN account_map
    /\ account_map[TREASURY_PDA].owner = PROGRAM_ID
    /\ account_map[TREASURY_PDA].data.kind = "Treasury"
    /\ ~account_map[TREASURY_PDA].data.treasury.stoptap
    /\ \A i \in DOMAIN ALL_POSSIBLE_MINTS :
          LET mint == ALL_POSSIBLE_MINTS[i]
          IN  /\ VaultPda(mint) \in DOMAIN account_map
              /\ account_map[VaultPda(mint)].owner = PROGRAM_ID
              /\ account_map[VaultPda(mint)].data.kind = "Vault"
              /\ account_map[VaultPda(mint)].data.vault.token_mint = mint
              /\ mint \in DOMAIN account_map
              /\ parse_mint_decimals(account_map[mint]) # None
              /\ LET oracle == account_map[VaultPda(mint)].data.vault.pyth_price_account
                 IN  /\ oracle \in DOMAIN account_map
                     /\ parse_pyth_price(account_map[oracle]) # None

\* the adapter went through an update before the most recent one, and that
\* earlier update parsed vaults: the most recent update is the second at least
SecondUpdateOrLater == before # None /\ before[1].vaults # EmptyMap

\* C14: a quote is refused with "oracle not ready" unless the most recent
\* update loaded a treasury that is not stopped and, for the input and the
\* output mint, a vault and a price from its oracle account; with a driver
\* that feeds each update the accounts get_accounts_to_update lists, that
\* update is the second at least, and after an update fed with all accounts
\* valid a quote of one mint for the other succeeds.
C14_WarmUp ==
    /\ (call.fn = "quote" /\ call.out # OracleNotReady) =>
          /\ loaded # None
          /\ treasury # None
          /\ ~treasury[1][2].stoptap
          /\ \A mint \in {call.params.input_mint, call.params.output_mint} :
                \E pk \in vaults_of(vaults, mint) :
                    /\ vaults[pk].pyth_price_account \in DOMAIN loaded[1]
                    /\ mint \in DOMAIN prices
          /\ SecondUpdateOrLater
    /\ (loaded # None /\ AllValid(loaded[1])) =>
          /\ SecondUpdateOrLater
          /\ \A i \in {SOL, USDC}, o \in {SOL, USDC} :
                i # o => OutcomeUnder(found, QuoteParams(i, o, Pow10(9))).tag = "Ok"

\* C14 happens: the first update loaded the vaults and no price, the second
\* was fed the oracle accounts too, and a quote of SOL for USDC succeeds.
C14_Witness ==
    /\ QuoteOk
    /\ call.params = QuoteParams(SOL, USDC, Pow10(9))
    /\ before # None
    /\ DOMAIN before[1].vaults = {VaultPda(SOL), VaultPda(USDC)}
    /\ before[1].prices = EmptyMap
    /\ AllValid(loaded[1])

====
